---- MODULE Spec2Model ----
(***************************************************************************)
(* Model of the highway path planner of src/src/main.cpp: the telemetry    *)
(* handler registered with h.onMessage, the behaviour layer (get_vehicle,  *)
(* behavior) and the assembly of the emitted trajectory.                   *)
(*                                                                         *)
(* Units.  The program computes in double; the model computes exactly in   *)
(* integers on a grid fine enough for every constant of the program:       *)
(*   arc length s, distances      5 millimetres      (30.0 m   = 6000)     *)
(*   vehicle speed, vx, vy        1/4 metre/second   (1 m/s    = 4)        *)
(*   lateral offset d             metres                                   *)
(*   ref_vel                      1/1000 mph         (.224 mph = 224)      *)
(*   lane costs                   1/1000             (w_stay 5 = 5000)     *)
(* so that  prev_size * .02 * speed [m]  =  prev_size * speed  [5 mm] and  *)
(* 2.24 * speed [mph] = 560 * speed [1/1000 mph].                          *)
(*                                                                         *)
(* Domain.  The integers give the value the doubles of the program give    *)
(* wherever the exact result decides a comparison: two different grid      *)
(* values are many orders of magnitude further apart than the rounding of  *)
(* a double.  Where the program's result rests on that rounding, or on     *)
(* something the source does not fix, the model has no value (Undefined):  *)
(*   - sqrt of a number that is not a perfect square on the grid;          *)
(*   - a comparison of two operands that are exactly equal but computed    *)
(*     along different paths (a projected distance against 0 or the        *)
(*     buffer, two lane costs, ref_vel against the target speed);          *)
(*   - the order std::sort gives vehicles of equal s once it no longer     *)
(*     sorts by insertion (more than 16 elements).                         *)
(***************************************************************************)
EXTENDS Integers, Sequences, FiniteSets

VARIABLES
  lane,        \* int lane of main, captured by reference by the handler
  ref_vel,     \* double ref_vel of main, captured by reference
  pc,          \* "idle": no message; "pending": a message waits for the
               \* handler; "replied": the handler has returned;
               \* "thrown": an exception has left the handler
  msg,         \* the websocket message delivered to the handler
  reply,       \* the message the handler passed to ws.send
  lane_in,     \* value of lane when the handler was entered
  ref_vel_in   \* value of ref_vel when the handler was entered

vars == <<lane, ref_vel, pc, msg, reply, lane_in, ref_vel_in>>

Max(a, b) == IF a > b THEN a ELSE b

Abs(a) == IF a < 0 THEN 0 - a ELSE a

\* no value: evaluating it is an error
Undefined(why) == CHOOSE x \in {} : x = why

\* a < b of two doubles whose exact values are a and b; same_path: equal
\* exact values are equal doubles, because both are computed the same way
RoundedLess(a, b, same_path) ==
  IF a = b /\ ~same_path
  THEN Undefined("the rounding of the doubles decides this comparison")
  ELSE a < b

(***************************************************************************)
(* Program constants.                                                      *)
(***************************************************************************)
buffer == 6000          \* double buffer = 30.0            [5 mm]

w_dist == 8000000       \* double w_dist = 40.0            [1/1000 * 5 mm]

w_speed == 1            \* double w_speed = 1.0

w_stay == 5000          \* double w_stay = 5.0             [1/1000]

w_coll == 1000000       \* double w_coll = 1000.0          [1/1000]

SpeedLimit == 49500     \* the literal 49.5                [1/1000 mph]

MphPerSpeedUnit == 560  \* the literal 2.24, per 1/4 m/s   [1/1000 mph]

FollowMargin == 2       \* the literal 0.5 m/s             [1/4 m/s]

SpeedStep == 224        \* the literal .224                [1/1000 mph]

PathLength == 50        \* the literal 50 of the fill loop

(***************************************************************************)
(* sqrt on the grid: the root of a perfect square (found by Newton's       *)
(* iteration from above), which is the double the program computes; any    *)
(* other root is not on the grid.                                          *)
(***************************************************************************)
RECURSIVE SqrtIter(_, _)
SqrtIter(n, x) ==
  LET y == (x + (n \div x)) \div 2
  IN  IF y < x THEN SqrtIter(n, y)
      ELSE IF x * x = n THEN x
      ELSE Undefined("sqrt of a number that is not a perfect square")

sqrt(n) == IF n = 0 THEN 0 ELSE SqrtIter(n, n)

(***************************************************************************)
(* A sensor_fusion entry is the vector [id, x, y, vx, vy, s, d]; C++ index *)
(* k is index k+1 here.                                                    *)
(***************************************************************************)
get_vehicle_speed(vehicle) ==
  sqrt(vehicle[4] * vehicle[4] + vehicle[5] * vehicle[5])

get_vehicle_dist(vehicle, s, prev_size) ==
  (vehicle[6] + prev_size * get_vehicle_speed(vehicle)) - s

\* the lane test of get_vehicle: d inside the open 4 m band of the lane
InLane(d, l) == d < (2 + 4 * l + 2) /\ d > (2 + 4 * l - 2)

\* the push_back conditions of get_vehicle for one sensor_fusion entry
\* (a vehicle that is not projected, at the s of the ego, is at distance 0.0)
Found(vehicle, s, l, prev_size, buf) ==
  /\ InLane(vehicle[7], l)
  /\ LET check_dist == get_vehicle_dist(vehicle, s, prev_size)
         unprojected == prev_size * get_vehicle_speed(vehicle) = 0
     IN  \/ /\ buf >= 0
            /\ RoundedLess(0, check_dist, unprojected)
            /\ RoundedLess(check_dist, buf, FALSE)
         \/ /\ buf < 0
            /\ RoundedLess(check_dist, 0, unprojected)
            /\ RoundedLess(buf, check_dist, FALSE)

\* found_vehicles after the loop: the qualifying entries in input order
RECURSIVE found_vehicles(_, _, _, _, _)
found_vehicles(s, l, sensor_fusion, prev_size, buf) ==
  IF sensor_fusion = <<>> THEN <<>>
  ELSE LET rest == found_vehicles(s, l, Tail(sensor_fusion), prev_size, buf)
       IN  IF Found(Head(sensor_fusion), s, l, prev_size, buf)
           THEN <<Head(sensor_fusion)>> \o rest
           ELSE rest

\* the two comparators handed to std::sort: on the observed s, veh[5]
SortBefore(veh1, veh2, buf) ==
  IF buf >= 0 THEN veh1[6] < veh2[6] ELSE veh1[6] > veh2[6]

\* two of the vehicles have the same s
HasTies(vs) ==
  \E i \in 1..Len(vs) : \E j \in (i + 1)..Len(vs) : vs[i][6] = vs[j][6]

\* std::sort of up to 16 elements is an insertion sort, which keeps vehicles
\* of equal s in input order: v goes in front of the first element it must
\* precede.  Beyond 16 elements only the order of different s is known.
RECURSIVE InsertSorted(_, _, _)
InsertSorted(v, sorted, buf) ==
  IF Len(sorted) >= 16 /\ HasTies(<<v>> \o sorted)
  THEN Undefined("std::sort of more than 16 vehicles, some of equal s")
  ELSE IF sorted = <<>> THEN <<v>>
  ELSE IF SortBefore(v, Head(sorted), buf) THEN <<v>> \o sorted
  ELSE <<Head(sorted)>> \o InsertSorted(v, Tail(sorted), buf)

RECURSIVE SortVehicles(_, _)
SortVehicles(vs, buf) ==
  IF Len(vs) > 16 /\ HasTies(vs)
  THEN Undefined("std::sort of more than 16 vehicles, some of equal s")
  ELSE IF vs = <<>> THEN <<>>
  ELSE InsertSorted(vs[Len(vs)], SortVehicles(SubSeq(vs, 1, Len(vs) - 1), buf), buf)

\* the empty vector stands for "no vehicle"
get_vehicle(s, l, sensor_fusion, prev_size, buf) ==
  LET sorted == SortVehicles(found_vehicles(s, l, sensor_fusion, prev_size, buf), buf)
  IN  IF Len(sorted) > 0 THEN Head(sorted) ELSE <<>>

(***************************************************************************)
(* Lane costs.  A cost is the exact value  whole + num/den  (in 1/1000),   *)
(* 0 <= num < den, so that  w_dist / distance  is kept without rounding;   *)
(* front is the <<speed, distance>> of the front car it was computed from  *)
(* (<<>> without one).                                                     *)
(***************************************************************************)
ZeroCost == [whole |-> 0, num |-> 0, den |-> 1, front |-> <<>>]

CostPlus(c, k) == [c EXCEPT !.whole = @ + k]

\* a < b of two costs.  Costs of equal exact value are equal doubles when
\* they come from the same front car data by the same additions
CostLess(a, b) ==
  IF a.whole = b.whole /\ a.num * b.den = b.num * a.den
  THEN IF a.front = b.front
       THEN FALSE
       ELSE Undefined("the rounding of the doubles decides this comparison")
  ELSE \/ a.whole < b.whole
       \/ (a.whole = b.whole /\ a.num * b.den < b.num * a.den)

CostLeq(a, b) == ~CostLess(b, a)

\* "costs increase if a front car is too close or drive with low speed"
front_cost(front_car, s, prev_size) ==
  IF front_car = <<>> THEN ZeroCost
  ELSE LET dist == get_vehicle_dist(front_car, s, prev_size)
       IN  [whole |-> w_speed * (SpeedLimit - MphPerSpeedUnit * get_vehicle_speed(front_car))
                      + (w_dist \div dist),
            num   |-> w_dist % dist,
            den   |-> dist,
            front |-> <<get_vehicle_speed(front_car), dist>>]

\* stay_cost with the sign of w_stay slipped
stay_cost_added(cost, l, ego_lane) ==
  IF ego_lane = l THEN CostPlus(cost, w_stay) ELSE cost

\* "cost decrease of ego lane, to discourage unnecessary lane changes"
stay_cost(cost, l, ego_lane) ==
  IF ego_lane = l THEN CostPlus(cost, 0 - w_stay) ELSE cost

\* "considerable cost increase if a back car in another lane is close"
coll_cost(cost, back_car, l, ego_lane) ==
  IF back_car # <<>> /\ ego_lane # l THEN CostPlus(cost, w_coll) ELSE cost

\* left_cost, mid_cost, right_cost (l = 0, 1, 2) as they stand at line 127
lane_cost(l, ego_lane, front_car, back_car, s, prev_size) ==
  coll_cost(stay_cost(front_cost(front_car, s, prev_size), l, ego_lane),
            back_car, l, ego_lane)

\* lane_selection with the lane tests of the two checks on lane 1 left out
lane_selection_unguarded(lane0, left_cost, mid_cost, right_cost) ==
  LET lane1 == IF lane0 = 0 /\ CostLess(mid_cost, left_cost)
               THEN lane0 + 1 ELSE lane0
      lane2 == IF CostLess(right_cost, mid_cost) /\ CostLeq(right_cost, left_cost)
               THEN lane1 + 1 ELSE lane1
      lane3 == IF lane2 = 2 /\ CostLess(mid_cost, right_cost)
               THEN lane2 - 1 ELSE lane2
      lane4 == IF CostLess(left_cost, mid_cost) /\ CostLess(left_cost, right_cost)
               THEN lane3 - 1 ELSE lane3
  IN  lane4

\* "lane selection": the four if statements, each reading the lane the
\* previous one may have written
lane_selection(lane0, left_cost, mid_cost, right_cost) ==
  LET lane1 == IF lane0 = 0 /\ CostLess(mid_cost, left_cost)
               THEN lane0 + 1 ELSE lane0
      lane2 == IF lane1 = 1 /\ CostLess(right_cost, mid_cost)
                            /\ CostLeq(right_cost, left_cost)
               THEN lane1 + 1 ELSE lane1
      lane3 == IF lane2 = 2 /\ CostLess(mid_cost, right_cost)
               THEN lane2 - 1 ELSE lane2
      lane4 == IF lane3 = 1 /\ CostLess(left_cost, mid_cost)
                            /\ CostLess(left_cost, right_cost)
               THEN lane3 - 1 ELSE lane3
  IN  lane4

\* switch(lane) without break: execution enters at the matching case label
\* and runs every later assignment as well
target_vehicle(new_lane, left_front_car, mid_front_car, right_front_car) ==
  LET t0 == IF new_lane = 0 THEN left_front_car ELSE <<>>
      t1 == IF new_lane \in {0, 1} THEN mid_front_car ELSE t0
      t2 == IF new_lane \in {0, 1, 2} THEN right_front_car ELSE t1
  IN  t2

\* speed_control that matches the speed of the target at once
speed_control_matching(vel, target) ==
  IF target # <<>>
  THEN LET target_speed == get_vehicle_speed(target)
       IN  IF vel > MphPerSpeedUnit * target_speed
           THEN MphPerSpeedUnit * target_speed
           ELSE IF vel < MphPerSpeedUnit * (target_speed - FollowMargin)
                THEN MphPerSpeedUnit * (target_speed - FollowMargin)
                ELSE vel
  ELSE IF vel < SpeedLimit THEN vel + SpeedStep ELSE vel

\* "reference speed control".  vel is a sum of steps of .224 and is never
\* the literal 49.5; it can be the exact value of 2.24 * a speed
speed_control(vel, target) ==
  IF target # <<>>
  THEN LET target_speed == get_vehicle_speed(target)
       IN  IF RoundedLess(MphPerSpeedUnit * target_speed, vel, FALSE)
           THEN vel - SpeedStep
           ELSE IF RoundedLess(vel, MphPerSpeedUnit * (target_speed - FollowMargin), FALSE)
                THEN vel + SpeedStep
                ELSE vel
  ELSE IF vel < SpeedLimit THEN vel + SpeedStep ELSE vel

\* behavior(): the values it leaves in its reference parameters
behavior(s, sensor_fusion, vel, lane0, prev_size) ==
  LET left_front_car  == get_vehicle(s, 0, sensor_fusion, prev_size, buffer)
      mid_front_car   == get_vehicle(s, 1, sensor_fusion, prev_size, buffer)
      right_front_car == get_vehicle(s, 2, sensor_fusion, prev_size, buffer)
      left_back_car   == get_vehicle(s, 0, sensor_fusion, prev_size, 0 - (buffer \div 3))
      mid_back_car    == get_vehicle(s, 1, sensor_fusion, prev_size, 0 - (buffer \div 3))
      right_back_car  == get_vehicle(s, 2, sensor_fusion, prev_size, 0 - (buffer \div 3))
      left_cost  == lane_cost(0, lane0, left_front_car, left_back_car, s, prev_size)
      mid_cost   == lane_cost(1, lane0, mid_front_car, mid_back_car, s, prev_size)
      right_cost == lane_cost(2, lane0, right_front_car, right_back_car, s, prev_size)
      new_lane   == lane_selection(lane0, left_cost, mid_cost, right_cost)
  IN  [lane    |-> new_lane,
       ref_vel |-> speed_control(vel,
                     target_vehicle(new_lane, left_front_car, mid_front_car,
                                    right_front_car))]

(***************************************************************************)
(* Trajectory assembly.  World coordinates are kept as terms: a coordinate *)
(* received in the telemetry is the one-element tuple of its value, a      *)
(* coordinate computed from the spline is the tuple of what it is computed *)
(* from: the axis, the reference state, the car_s and the lateral target   *)
(* of the anchors ahead, ref_vel, and the step of the fill loop.           *)
(***************************************************************************)
\* int prev_size = previous_path_x.size(): the x coordinates alone count
PrevSize(m) == Len(m.previous_path_x)

\* previous_path_y is read at the indexes below prev_size (lines 268, 270
\* and 317).  Past its end the json array yields a null, and the conversion
\* of a null to double throws: the exception leaves the handler
Throws(m) == Len(m.previous_path_y) < PrevSize(m)

\* "ego prediction along previous trajectory": car_s after line 248
EgoS(m) == IF PrevSize(m) > 0 THEN m.end_path_s ELSE m.s

\* the reference state and the two tangent anchors, lines 258-283:
\* <<ref_x, ref_y, what ref_yaw and the first anchor are computed from>>
Reference(m) ==
  LET n == PrevSize(m)
  IN  IF n < 2
      THEN m.x \o m.y \o m.yaw
      ELSE m.previous_path_x[n] \o m.previous_path_y[n]
             \o m.previous_path_x[n - 1] \o m.previous_path_y[n - 1]

\* x_point / y_point pushed in iteration i of the fill loop, lines 327-341
x_point(i, ref, car_s, new_lane, new_vel) ==
  <<1, i, new_vel, 2 + 4 * new_lane, car_s, ref>>

y_point(i, ref, car_s, new_lane, new_vel) ==
  <<2, i, new_vel, 2 + 4 * new_lane, car_s, ref>>

\* next_x_vals with the fill loop ending one step early (i < 50 - prev_size)
next_x_vals_short(m, new_lane, new_vel) ==
  LET ref == Reference(m)
      car_s == EgoS(m)
  IN  m.previous_path_x
        \o [i \in 1..(PathLength - PrevSize(m) - 1) |->
              x_point(i, ref, car_s, new_lane, new_vel)]

\* next_x_vals with the whole path computed anew from the spline
next_x_vals_recomputed(m, new_lane, new_vel) ==
  LET ref == Reference(m)
      car_s == EgoS(m)
  IN  [i \in 1..Max(PathLength, PrevSize(m)) |->
         x_point(i, ref, car_s, new_lane, new_vel)]

\* next_x_vals / next_y_vals at line 344: the first prev_size points of the
\* previous path (for (i = 0; i < prev_size; i++)), then the points of
\* for (i = 1; i <= 50 - prev_size; i++)
next_x_vals(m, new_lane, new_vel) ==
  LET ref == Reference(m)
      car_s == EgoS(m)
  IN  [i \in 1..PrevSize(m) |-> m.previous_path_x[i]]
        \o [i \in 1..(PathLength - PrevSize(m)) |->
              x_point(i, ref, car_s, new_lane, new_vel)]

next_y_vals(m, new_lane, new_vel) ==
  LET ref == Reference(m)
      car_s == EgoS(m)
  IN  [i \in 1..PrevSize(m) |-> m.previous_path_y[i]]
        \o [i \in 1..(PathLength - PrevSize(m)) |->
              y_point(i, ref, car_s, new_lane, new_vel)]

(***************************************************************************)
(* Messages the simulator can deliver.                                     *)
(***************************************************************************)
\* at most this many vehicles are reported in one telemetry message
MaxVehicles == 3

\* sensor_fusion entries [id, x, y, vx, vy, s, d] around an ego at s = 100 m
Vehicles ==
  << <<1, 0, 0,  0,  1, 20004,  6>>,   \* mid lane, 2 cm ahead, 0.25 m/s
     <<2, 0, 0,  0,  1, 19000,  2>>,   \* left lane, 5 m behind, 0.25 m/s
     <<3, 0, 0,  1,  0, 20004, 10>>,   \* right lane, 2 cm ahead, 0.25 m/s
     <<4, 0, 0, 33, 56, 21000,  2>>,   \* left lane, 5 m ahead, 16.25 m/s
     <<5, 0, 0,  3,  4, 22000,  2>>,   \* left lane, 10 m ahead, 1.25 m/s
     <<6, 0, 0, 35, 84, 25800, 10>> >> \* right lane, 29 m ahead, 22.75 m/s

\* the entries with the ids of S, in the order of their ids
RECURSIVE Listing(_, _)
Listing(S, k) ==
  IF k > Len(Vehicles) THEN <<>>
  ELSE (IF k \in S THEN <<Vehicles[k]>> ELSE <<>>) \o Listing(S, k + 1)

SensorFusions ==
  { Listing(S, 1) : S \in { T \in SUBSET (1..Len(Vehicles)) : Cardinality(T) <= MaxVehicles } }

\* lengths of the previous path: empty, short, full, and longer than the
\* 50 points the planner emits
PrevSizes == {0, 2, PathLength, PathLength + 1}

\* the k-th point of the previous path lies k steps of 0.4 m along x
PreviousPath(first, step, n) == [k \in 1..n |-> <<first + step * k>>]

\* the telemetry of a car whose queued path of n points ends at s = 100 m:
\* the car itself is 0.4 m per queued point behind; end_path_s is 0 when
\* nothing is queued
Telemetry(n, sf) ==
  [event |-> "telemetry",
   x |-> <<1000>>, y |-> <<500>>, yaw |-> <<0>>,
   s |-> IF n = 0 THEN 20000 ELSE 20000 - 80 * n,
   end_path_s |-> IF n = 0 THEN 0 ELSE 20000,
   previous_path_x |-> PreviousPath(1000, 80, n),
   previous_path_y |-> PreviousPath(500, 0, n),
   sensor_fusion |-> sf]

NoMsg == [event |-> "none"]

\* telemetry whose previous_path_y has n points beside two of previous_path_x
Unpaired(n) ==
  [Telemetry(2, <<>>) EXCEPT !.previous_path_y = PreviousPath(500, 0, n)]

Messages ==
  { Telemetry(n, sf) : n \in PrevSizes, sf \in SensorFusions }
    \cup { Unpaired(1), Unpaired(3) }
    \cup { [event |-> "manual"], [event |-> "other"] }

(***************************************************************************)
(* The control loop.                                                       *)
(***************************************************************************)
Init ==
  /\ lane = 1
  /\ ref_vel = 0
  /\ pc = "idle"
  /\ msg = NoMsg
  /\ reply = NoMsg
  /\ lane_in = 1
  /\ ref_vel_in = 0

\* the simulator sends a message over the websocket
Deliver ==
  /\ pc = "idle"
  /\ msg' \in Messages
  /\ pc' = "pending"
  /\ UNCHANGED <<lane, ref_vel, reply, lane_in, ref_vel_in>>

\* h.onMessage, event == "telemetry": behavior(), then the trajectory and
\* the reply; a previous_path_y too short for prev_size throws after
\* behavior() has run, and nothing is sent
OnTelemetry ==
  /\ pc = "pending"
  /\ msg.event = "telemetry"
  /\ LET b == behavior(EgoS(msg), msg.sensor_fusion, ref_vel, lane, PrevSize(msg))
     IN  /\ lane' = b.lane
         /\ ref_vel' = b.ref_vel
         /\ IF Throws(msg)
            THEN /\ reply' = reply
                 /\ pc' = "thrown"
            ELSE /\ reply' = [event |-> "control",
                              next_x |-> next_x_vals(msg, b.lane, b.ref_vel),
                              next_y |-> next_y_vals(msg, b.lane, b.ref_vel)]
                 /\ pc' = "replied"
  /\ lane_in' = lane
  /\ ref_vel_in' = ref_vel
  /\ UNCHANGED msg

\* h.onMessage, hasData(data) == "": the "manual" reply
OnManual ==
  /\ pc = "pending"
  /\ msg.event = "manual"
  /\ reply' = [event |-> "manual"]
  /\ pc' = "replied"
  /\ UNCHANGED <<lane, ref_vel, msg, lane_in, ref_vel_in>>

\* h.onMessage, any other message: nothing is sent, nothing changes
OnOther ==
  /\ pc = "pending"
  /\ msg.event = "other"
  /\ pc' = "idle"
  /\ msg' = NoMsg
  /\ UNCHANGED <<lane, ref_vel, reply, lane_in, ref_vel_in>>

\* the simulator takes the reply off the websocket
Collect ==
  /\ pc = "replied"
  /\ pc' = "idle"
  /\ msg' = NoMsg
  /\ reply' = NoMsg
  /\ lane_in' = lane
  /\ ref_vel_in' = ref_vel
  /\ UNCHANGED <<lane, ref_vel>>

Next == Deliver \/ OnTelemetry \/ OnManual \/ OnOther \/ Collect

Spec == Init /\ [][Next]_vars

(***************************************************************************)
(* The cycle a "replied" state has just completed: msg is the telemetry    *)
(* that was handled, lane_in and ref_vel_in are the planner state behavior *)
(* was called with, lane, ref_vel and reply are what the handler left.     *)
(***************************************************************************)
Cycle == pc = "replied" /\ msg.event = "telemetry"

Lanes == {0, 1, 2}

FrontCar(l) ==
  get_vehicle(EgoS(msg), l, msg.sensor_fusion, PrevSize(msg), buffer)

BackCar(l) ==
  get_vehicle(EgoS(msg), l, msg.sensor_fusion, PrevSize(msg), 0 - (buffer \div 3))

FrontCost(l) == front_cost(FrontCar(l), EgoS(msg), PrevSize(msg))

Cost(l) ==
  lane_cost(l, lane_in, FrontCar(l), BackCar(l), EgoS(msg), PrevSize(msg))

Projected(v, prev_size) == v[6] + prev_size * get_vehicle_speed(v)

\* C1: in one cycle the lane index changes by at most one step.
C1_OneStepPerCycle == Cycle => Abs(lane - lane_in) <= 1

\* C2: a vehicle found behind in a lane adjacent to the current lane keeps
\* the cycle from ending in that lane.
C2_RearVehicleBlocksSwitch ==
  Cycle =>
    \A L \in Lanes :
      (Abs(L - lane_in) = 1 /\ BackCar(L) # <<>>) => lane # L

\* C3: the referenceSpeed update is the speed control applied to the front
\* vehicle of the resulting lane, and to no other vehicle.
C3_TargetIsFrontOfFinalLane ==
  Cycle => ref_vel = speed_control(ref_vel_in, FrontCar(lane))

\* the indices of the entries of sf that qualify for (l, buf)
Qualifying(s, l, sf, prev_size, buf) ==
  { k \in 1..Len(sf) :
      /\ InLane(sf[k][7], l)
      /\ LET dist == Projected(sf[k], prev_size) - s
         IN  IF buf >= 0 THEN 0 < dist /\ dist < buf
                         ELSE buf < dist /\ dist < 0 }

\* C4: get_vehicle returns a qualifying vehicle with the smallest projected
\* arc length (bound >= 0) or the largest (bound < 0), and none exactly when
\* no vehicle qualifies.
C4_NearestByProjection ==
  msg.event = "telemetry" =>
    \A l \in Lanes : \A buf \in {buffer, 0 - (buffer \div 3)} :
      LET sf == msg.sensor_fusion
          n  == PrevSize(msg)
          Q  == Qualifying(EgoS(msg), l, sf, n, buf)
          r  == get_vehicle(EgoS(msg), l, sf, n, buf)
      IN  IF Q = {} THEN r = <<>>
          ELSE /\ \E k \in Q : r = sf[k]
               /\ \A k \in Q :
                    IF buf >= 0 THEN Projected(r, n) <= Projected(sf[k], n)
                                ELSE Projected(r, n) >= Projected(sf[k], n)

\* C5: the emitted trajectory has exactly 50 points when the path tail has
\* at most 50, is the tail itself when the tail has 50 or more, and its x
\* and y sequences have equal length.
C5_TrajectoryLength ==
  Cycle =>
    /\ Len(reply.next_x) = Len(reply.next_y)
    /\ (PrevSize(msg) <= PathLength => Len(reply.next_x) = PathLength)
    /\ (PrevSize(msg) >= PathLength =>
          /\ reply.next_x = msg.previous_path_x
          /\ reply.next_y = msg.previous_path_y)

C5_Witness ==
  /\ Cycle
  /\ PrevSize(msg) > 0 /\ PrevSize(msg) < PathLength
  /\ Len(reply.next_x) = PathLength

\* C6: every point of the path tail is carried into the output unchanged and
\* in order; new points only follow the tail.
C6_TailCarriedOver ==
  Cycle =>
    /\ Len(reply.next_x) >= PrevSize(msg)
    /\ Len(reply.next_y) >= PrevSize(msg)
    /\ \A i \in 1..PrevSize(msg) :
         /\ reply.next_x[i] = msg.previous_path_x[i]
         /\ reply.next_y[i] = msg.previous_path_y[i]

C6_Witness ==
  /\ Cycle
  /\ PrevSize(msg) >= 2
  /\ Len(reply.next_x) > PrevSize(msg)
  /\ lane # lane_in
  /\ ref_vel # ref_vel_in
  /\ reply.next_x[1] = msg.previous_path_x[1]
  /\ reply.next_x[2] = msg.previous_path_x[2]

\* lanes a and b have the same front-vehicle conditions
SameFront(a, b) ==
  \/ (FrontCar(a) = <<>> /\ FrontCar(b) = <<>>)
  \/ /\ FrontCar(a) # <<>>
     /\ FrontCar(b) # <<>>
     /\ get_vehicle_speed(FrontCar(a)) = get_vehicle_speed(FrontCar(b))
     /\ get_vehicle_dist(FrontCar(a), EgoS(msg), PrevSize(msg))
          = get_vehicle_dist(FrontCar(b), EgoS(msg), PrevSize(msg))

\* the costs of lanes a and b are tied before the stay bonus
FrontTie(a, b) ==
  /\ FrontCost(a).whole = FrontCost(b).whole
  /\ FrontCost(a).num * FrontCost(b).den = FrontCost(b).num * FrontCost(a).den

\* C7: a cycle never ends in another lane whose front-vehicle conditions
\* (or whose cost before the stay bonus) equal those of the current lane.
C7_Hysteresis ==
  Cycle =>
    \A C \in Lanes \ {lane_in} :
      (SameFront(C, lane_in) \/ FrontTie(C, lane_in)) => lane # C

C7_Witness ==
  /\ Cycle
  /\ lane # lane_in
  /\ \E C \in Lanes \ {lane_in} :
       /\ FrontCar(C) # <<>>
       /\ SameFront(C, lane_in)
       /\ lane # C

\* C8: one cycle changes referenceSpeed by -0.224, 0 or +0.224.
C8_BoundedAcceleration ==
  Cycle => (ref_vel - ref_vel_in) \in {0 - SpeedStep, 0, SpeedStep}

\* the vehicle the speed control of the last cycle was applied to
Target == target_vehicle(lane, FrontCar(0), FrontCar(1), FrontCar(2))

C8_Witness ==
  /\ Cycle
  /\ Target # <<>>
  /\ ref_vel_in > MphPerSpeedUnit * get_vehicle_speed(Target) + 10 * SpeedStep
  /\ ref_vel = ref_vel_in - SpeedStep

\* C9: the lane is always one of 0, 1, 2.
C9_LaneInRange == lane \in Lanes

C9_Witness ==
  /\ Cycle
  /\ lane_in = 2
  /\ CostLess(Cost(2), Cost(1))
  /\ CostLeq(Cost(2), Cost(0))
  /\ lane = 2

\* C10: referenceSpeed never exceeds the speed limit by a full step.
C10_SpeedLimitCap == ref_vel < SpeedLimit + SpeedStep

====
